---- MODULE Spec2Model ----
(***************************************************************************)
(* The Rhino/Grasshopper MCP glue: the decorator registry and its          *)
(* discovery (tool_registry.py), the HTTP bridge inside Rhino              *)
(* (rhino_bridge_server.py), the bridge client of the MCP process          *)
(* (bridge_client.py, main.py) and the tool modules (Tools/*.py).          *)
(*                                                                         *)
(* Two Python processes run this code: "mcp" (main.py) and "rhino" (the    *)
(* bridge).  Each has its own copy of the registry module's globals.       *)
(***************************************************************************)
EXTENDS Integers, Sequences, FiniteSets, TLC

\* ------------------------------------------------------------------ bounds
\* HTTP clients connected to the bridge at one time
MaxClients == 2
\* components a user places on one canvas
MaxObjects == 2
\* the Maximum of the sliders of the user's files (their Minimum is 0)
MaxSlider == 2
\* longest request body (in lexemes) an arbitrary HTTP client sends
MaxBodyLen == 2
\* RhinoBridgeServer objects created in one Rhino session
MaxInstances == 2

\* --------------------------------------------------------------- constants
BRIDGE_PORT == 8080
OTHER_PORT == BRIDGE_PORT + 1
Ports == {BRIDGE_PORT, OTHER_PORT}

Proc == {"mcp", "rhino"}
Absent == "absent"

\* ------------------------------------------------------- the tool modules
\* the *.py files of the Tools directory that discover_tools imports
ToolModules == {"custom_tools", "gh_tools", "rhino_tools"}

Reg(dec, name, func, desc) ==
    [dec |-> dec, name |-> name, func |-> func, description |-> desc]

\* the decorators of Tools/custom_tools.py, in file order
CustomToolsBody == <<
    Reg("custom_tool", "hello_world", "hello_world",
        "A simple hello world tool to test MCP connection."),
    Reg("custom_tool", "simple_math", "simple_math",
        "Perform basic math operations (add, subtract, multiply, divide)."),
    Reg("custom_tool", "echo_message", "echo_message",
        "Echo back a message with additional metadata."),
    Reg("custom_tool", "predict_truss_tonnage", "predict_truss_tonnage",
        "Predict the weight (tonnage) of a truss based on its span and depth.") >>

\* the decorators of Tools/rhino_tools.py, in file order
RhinoToolsBody == <<
    Reg("rhino_tool", "draw_line_rhino", "draw_line_rhino",
        "Draw a line in Rhino 3D space between two points."),
    Reg("bridge_handler", "/draw_line", "handle_draw_line", Absent) >>

\* the decorators of Tools/gh_tools.py, in file order
GhToolsBody == <<
    Reg("gh_tool", "get_active_gh_files", "get_active_gh_files",
        "Get information about all currently open Grasshopper files."),
    Reg("bridge_handler", "/get_active_gh_files", "handle_get_active_gh_files", Absent),
    Reg("gh_tool", "list_grasshopper_sliders", "list_grasshopper_sliders",
        "List all available slider components in a specific Grasshopper file."),
    Reg("bridge_handler", "/list_sliders", "handle_list_sliders", Absent),
    Reg("gh_tool", "generate_building_massing", "generate_building_massing",
        "Generate a parametric building massing model in Grasshopper from building parameters."),
    Reg("bridge_handler", "/generate_building_massing", "handle_generate_building_massing", Absent),
    Reg("gh_tool", "list_gh_files", "list_gh_files",
        "List all Grasshopper (.gh) files available in the Grasshopper File Library with their metadata."),
    Reg("bridge_handler", "/list_gh_files", "handle_list_gh_files", Absent),
    Reg("gh_tool", "set_grasshopper_slider", "set_grasshopper_slider",
        "Change the value of a Grasshopper slider component by name in a specific Grasshopper file."),
    Reg("bridge_handler", "/set_slider", "handle_set_slider", Absent),
    Reg("gh_tool", "list_eml_parameters", "list_eml_parameters",
        "Discover all EML (eml_) prefixed parameters in the active Grasshopper file."),
    Reg("bridge_handler", "/list_eml_parameters", "handle_list_eml_parameters", Absent),
    Reg("gh_tool", "get_eml_parameter_value", "get_eml_parameter_value",
        "Get the current value(s) from any eml_ prefixed parameter."),
    Reg("bridge_handler", "/get_eml_parameter_value", "handle_get_eml_parameter_value", Absent),
    Reg("gh_tool", "set_eml_parameter_value", "set_eml_parameter_value",
        "Set the value of any eml_ prefixed parameter."),
    Reg("bridge_handler", "/set_eml_parameter_value", "handle_set_eml_parameter_value", Absent),
    Reg("gh_tool", "suggest_eml_connections", "suggest_eml_connections",
        "Analyze eml_ parameters in the current Grasshopper file and suggest potential connections."),
    Reg("bridge_handler", "/suggest_eml_connections", "handle_suggest_eml_connections", Absent) >>

ModuleBody(m) ==
    CASE m = "custom_tools" -> CustomToolsBody
      [] m = "rhino_tools"  -> RhinoToolsBody
      [] m = "gh_tools"     -> GhToolsBody

\* every endpoint some tool module registers, in Python's string order
\* (sorted() compares code points: '_' < 'a', and a prefix sorts first)
EndpointOrder == <<
    "/draw_line", "/generate_building_massing", "/get_active_gh_files",
    "/get_eml_parameter_value", "/list_eml_parameters", "/list_gh_files",
    "/list_sliders", "/set_eml_parameter_value", "/set_slider",
    "/suggest_eml_connections" >>

Endpoints == {EndpointOrder[i] : i \in 1..Len(EndpointOrder)}

\* ------------------------------------------------------------------- state
VARIABLES
    \* the environment of the installation, fixed while the processes run
    broken,                     \* tool modules whose import raises ImportError
    DYNAMIC_HANDLERS_AVAILABLE, \* rhino: "from tool_registry import ..." worked
    \* Grasshopper inside Rhino, as the handlers of gh_tools.py see it
    gh_open,                    \* the documents open in Grasshopper
    gh_objects,                 \* gh_doc.Objects of every document
    gh_active,                  \* Instances.ActiveCanvas.Document
    gh_ret,                     \* what the last gh_tools handler returned
    \* tool_registry.py globals, one copy per process
    _rhino_tools, _gh_tools, _custom_tools, _bridge_handlers,
    sys_modules,                \* the tool modules in sys.modules
    discover_outcome,           \* how the last discover_tools() call ended
    \* rhino_bridge_server.py globals (process "rhino")
    _handlers_initialized, _dynamic_handlers,
    bridge_server,              \* None, or the index of the instance
    instances,                  \* the live RhinoBridgeServer objects, by id
    created,                    \* RhinoBridgeServer objects created so far
    start_ret,                  \* what the last start_bridge_server returned
    \* the HTTP exchange the serve_forever thread is handling
    last,
    \* MCP/main.py (process "mcp")
    mcp_pc,                     \* where __main__ is
    bridge_ok,                  \* what check_bridge_connection() returned
    mcp_tools,                  \* the tools registered with mcp.tool, in order
    totals,                     \* what register_tools() returned
    pending,                    \* the call_bridge_api call waiting for its answer
    \* the TCP connections of HTTP clients to the servers of the bridge process
    conns,
    ret                         \* what the last call_bridge_api call came to

regVars == << _rhino_tools, _gh_tools, _custom_tools, _bridge_handlers,
              sys_modules, discover_outcome >>
dynVars == << _handlers_initialized, _dynamic_handlers >>
srvVars == << bridge_server, instances, created, start_ret >>
insVars == << broken, DYNAMIC_HANDLERS_AVAILABLE >>
ghVars == << gh_open, gh_objects, gh_active, gh_ret >>
envVars == << insVars, ghVars >>
mcpVars == << mcp_pc, bridge_ok, mcp_tools, totals, pending, ret >>

\* one process's registry as a record
Registry(p) ==
    [rhino    |-> _rhino_tools[p],
     gh       |-> _gh_tools[p],
     custom   |-> _custom_tools[p],
     handlers |-> _bridge_handlers[p]]

EmptyHandlers == [e \in {} |-> Absent]

\* ToolDefinition(name, description, function, tool_type)
ToolDefinition(r, type) ==
    [name |-> r.name, description |-> r.description,
     function |-> r.func, tool_type |-> type]

\* tool_name and tool_description of the decorators: the arguments given,
\* or else the function's name and "<Kind> tool: <function name>"
Defaulted(r, type) ==
    [r EXCEPT
        !.name = IF @ # Absent THEN @ ELSE r.func,
        !.description =
            IF @ # Absent THEN @
            ELSE (CASE type = "rhino" -> "Rhino tool: "
                    [] type = "grasshopper" -> "Grasshopper tool: "
                    [] type = "custom" -> "Custom tool: ") \o r.func]

\* one decorator call: @rhino_tool / @gh_tool / @custom_tool append a
\* ToolDefinition to their list, @bridge_handler sets _bridge_handlers[endpoint]
Decorate(reg, r) ==
    CASE r.dec = "rhino_tool" ->
            [reg EXCEPT !.rhino = Append(@, ToolDefinition(Defaulted(r, "rhino"), "rhino"))]
      [] r.dec = "gh_tool" ->
            [reg EXCEPT !.gh = Append(@, ToolDefinition(Defaulted(r, "grasshopper"), "grasshopper"))]
      [] r.dec = "custom_tool" ->
            [reg EXCEPT !.custom = Append(@, ToolDefinition(Defaulted(r, "custom"), "custom"))]
      [] r.dec = "bridge_handler" ->
            [reg EXCEPT !.handlers =
                [e \in (DOMAIN @) \cup {r.name} |->
                    IF e = r.name THEN r.func ELSE @[e]]]

\* executing a module's top level: its decorators run in file order
RECURSIVE ExecBody(_, _)
ExecBody(reg, body) ==
    IF body = << >> THEN reg
    ELSE ExecBody(Decorate(reg, Head(body)), Tail(body))

\* import_module alone: a module already in sys.modules is not executed again
ImportWithoutReload(st, m, brk) ==
    IF m \in st.mods \/ m \in brk THEN st
    ELSE [reg |-> ExecBody(st.reg, ModuleBody(m)), mods |-> st.mods \cup {m}]

\* importlib.import_module followed by importlib.reload when the module was
\* already in sys.modules: st is [reg, mods].  A module of `broken` raises
\* ImportError at its dependency imports, above every decorator; a failed
\* first import leaves no entry in sys.modules, and the "Tools." retry
\* fails the same way.
ImportOrReload(st, m, brk) ==
    IF m \in st.mods
    THEN \* import_module returns the cached module; reload executes it again
         IF m \in brk THEN st
         ELSE [st EXCEPT !.reg = ExecBody(@, ModuleBody(m))]
    ELSE \* a first import executes the module
         IF m \in brk THEN st
         ELSE [reg |-> ExecBody(st.reg, ModuleBody(m)), mods |-> st.mods \cup {m}]

RECURSIVE ImportAll(_, _, _)
ImportAll(st, files, brk) ==
    IF files = << >> THEN st
    ELSE ImportAll(ImportOrReload(st, Head(files), brk), Tail(files), brk)

ClearedRegistry ==
    [rhino |-> << >>, gh |-> << >>, custom |-> << >>, handlers |-> EmptyHandlers]

\* the orders in which os.listdir may return the tool files
ListdirOrders ==
    {s \in [1..Cardinality(ToolModules) -> ToolModules] :
        \A i, j \in DOMAIN s : i # j => s[i] # s[j]}

\* discover_tools(): clear the four registries, then import every file
discover_tools(mods, files, brk) ==
    ImportAll([reg |-> ClearedRegistry, mods |-> mods], files, brk)

\* the effect of one discover_tools() call of process p on the globals;
\* listed = FALSE is os.listdir raising, after the registries were cleared
DiscoverIn(p, files, listed) ==
    LET st == IF listed THEN discover_tools(sys_modules[p], files, broken)
              ELSE [reg |-> ClearedRegistry, mods |-> sys_modules[p]]
    IN /\ _rhino_tools'     = [_rhino_tools EXCEPT ![p] = st.reg.rhino]
       /\ _gh_tools'        = [_gh_tools EXCEPT ![p] = st.reg.gh]
       /\ _custom_tools'    = [_custom_tools EXCEPT ![p] = st.reg.custom]
       /\ _bridge_handlers' = [_bridge_handlers EXCEPT ![p] = st.reg.handlers]
       /\ sys_modules'      = [sys_modules EXCEPT ![p] = st.mods]
       /\ discover_outcome' = [discover_outcome EXCEPT ![p] =
            IF ~listed THEN "raised"
            ELSE IF (sys_modules[p] \ broken) # {} THEN "reloaded"
            ELSE "loaded"]

\* the serve_forever thread is between two requests.  A handler runs to its
\* end in one step, so the other operations of the process fall between
\* two exchanges.
ThreadIdle == last.req.method = "none"

\* a direct call of the public discover_tools()
DiscoverTools(p) ==
    /\ ThreadIdle
    /\ p = "rhino" => DYNAMIC_HANDLERS_AVAILABLE
    /\ \E files \in ListdirOrders, listed \in BOOLEAN : DiscoverIn(p, files, listed)
    /\ UNCHANGED << envVars, conns, dynVars, srvVars, last, mcpVars >>

\* ------------------------------------------------- the bridge's dispatch table
None == 0

\* dict.update: the entries of `other` are set in `table`
DictUpdate(table, other) ==
    [e \in (DOMAIN table) \cup (DOMAIN other) |->
        IF e \in DOMAIN other THEN other[e] ELSE table[e]]

\* get_bridge_handlers(): a copy of the registry's handler table
get_bridge_handlers(p) == _bridge_handlers[p]

\* an initialisation that does not record that it succeeded
initialize_without_flag ==
    IF _handlers_initialized \/ ~DYNAMIC_HANDLERS_AVAILABLE
    THEN UNCHANGED << regVars, dynVars >>
    ELSE \E files \in ListdirOrders, listed \in BOOLEAN :
            /\ DiscoverIn("rhino", files, listed)
            /\ IF listed
               THEN /\ _dynamic_handlers' =
                        DictUpdate(_dynamic_handlers, _bridge_handlers'["rhino"])
                    /\ UNCHANGED _handlers_initialized
               ELSE UNCHANGED dynVars

\* initialize_dynamic_handlers(), as part of the step that calls it
InitializeDynamicHandlers ==
    IF _handlers_initialized \/ ~DYNAMIC_HANDLERS_AVAILABLE
    THEN UNCHANGED << regVars, dynVars >>
    ELSE \E files \in ListdirOrders, listed \in BOOLEAN :
            /\ DiscoverIn("rhino", files, listed)
            /\ IF listed
               THEN /\ _dynamic_handlers' =
                        DictUpdate(_dynamic_handlers, _bridge_handlers'["rhino"])
                    /\ _handlers_initialized' = TRUE
               ELSE UNCHANGED dynVars

\* ------------------------------------------------- the bridge server's life
\* the HTTP clients that may be connected at one time
Clients == 1..MaxClients

\* a connection: waiting in the listen queue of the server `inst`, in the
\* request handler, or with its response being written
Conn(stage, inst) == [stage |-> stage, inst |-> inst]
NoConn == Conn("none", None)

\* the connections a server's request handler is working on
InHandler(i) ==
    {c \in DOMAIN conns :
        conns[c].inst = i /\ conns[c].stage \in {"handler", "responding"}}

\* a server that hands every connection to a thread of its own
ThreadingHTTPServer_idle(i) == TRUE

\* HTTPServer.serve_forever on the one thread start() made: the loop takes
\* the next connection when the handler of the last has returned
serve_forever_idle(i) == InHandler(i) = {}

\* RhinoBridgeServer.__init__
NewInstance(port) == [port |-> port, server |-> "None", server_thread |-> "None"]

\* is_running that never sees the thread alive
is_running_never(inst) == FALSE

\* RhinoBridgeServer.is_running
is_running(inst) == inst.server_thread # "None" /\ inst.server_thread = "alive"

\* an HTTPServer of this process is bound to the port
PortBound(port) ==
    \E i \in DOMAIN instances :
        instances[i].port = port /\ instances[i].server = "open"

\* RhinoBridgeServer.start on a fresh instance: the handlers are initialised,
\* then HTTPServer binds the port (OSError when the port is taken, caught and
\* printed) and the thread runs serve_forever
Start(inst, bound) ==
    IF bound THEN [inst EXCEPT !.server = "open", !.server_thread = "alive"]
    ELSE inst

\* a stop that leaves the HTTP server as it is
stop_without_shutdown(inst) == inst

\* RhinoBridgeServer.stop: shutdown() ends serve_forever, server_close()
\* closes the socket
Stop(inst) ==
    IF inst.server # "None"
    THEN [inst EXCEPT !.server = "closed", !.server_thread = "dead"]
    ELSE inst

\* the objects Python keeps: the one the global names, and those a running
\* serve_forever thread holds
Collect(heap, root) ==
    LET live == {i \in DOMAIN heap : i = root \/ heap[i].server_thread = "alive"}
    IN [i \in live |-> heap[i]]

\* what start_bridge_server returned: the instance, and whether it was the
\* one found running ("Bridge server is already running")
StartReturn(i, existing) == [instance |-> i, existing |-> existing]

\* start_bridge_server(host, port)
start_bridge_server(port) ==
    IF bridge_server # None /\ is_running(instances[bridge_server])
    THEN /\ start_ret' = StartReturn(bridge_server, TRUE)
         /\ UNCHANGED << bridge_server, instances, created, regVars, dynVars >>
    ELSE /\ created < MaxInstances
         /\ InitializeDynamicHandlers
         /\ created' = created + 1
         /\ bridge_server' = created'
         /\ \E free \in BOOLEAN :
              LET new == Start(NewInstance(port), free /\ ~PortBound(port))
              IN instances' = Collect(
                    [i \in (DOMAIN instances) \cup {created'} |->
                        IF i = created' THEN new ELSE instances[i]], created')
         /\ start_ret' = StartReturn(created', FALSE)

StartBridgeServer ==
    /\ ThreadIdle
    /\ \E port \in Ports : start_bridge_server(port)
    /\ UNCHANGED << envVars, conns, last, mcpVars >>

\* stop_bridge_server()
StopBridgeServer ==
    \* shutdown() returns when serve_forever has left its loop, that is after
    \* the request in progress
    /\ ThreadIdle
    /\ bridge_server # None => serve_forever_idle(bridge_server)
    /\ IF bridge_server # None
       THEN /\ instances' =
                Collect([instances EXCEPT ![bridge_server] = Stop(@)], None)
            /\ bridge_server' = None
            \* server_close(): the connections not yet accepted are reset
            /\ conns' = [c \in DOMAIN conns |->
                    IF conns[c].inst = bridge_server THEN NoConn ELSE conns[c]]
       ELSE UNCHANGED << bridge_server, instances, conns >>
    /\ UNCHANGED << envVars, regVars, dynVars, created, start_ret, last, mcpVars >>

\* start_rhino_bridge.main(): start_bridge() of the Rhino console
StartBridge ==
    /\ ThreadIdle
    /\ IF bridge_server # None /\ is_running(instances[bridge_server])
       THEN UNCHANGED << srvVars, regVars, dynVars >>
       ELSE start_bridge_server(BRIDGE_PORT)
    /\ UNCHANGED << envVars, conns, last, mcpVars >>

\* start_rhino_bridge.status(): what bridge_status() prints
bridge_status ==
    IF bridge_server # None /\ is_running(instances[bridge_server])
    THEN "Bridge server is running" ELSE "Bridge server is not running"

\* the HTTP servers of this process that accept requests
Serving == {i \in DOMAIN instances :
                instances[i].server = "open" /\ instances[i].server_thread = "alive"}

\* ------------------------------------------------------------ JSON values
\* a request body is a sequence of lexemes: braces, the digit 1, a blank, a
\* whole "name": value member, and a byte that is not valid UTF-8
BadByte == "\\xff"
Member == "m"
Alphabet == {"{", "}", "1", " ", BadByte}

\* a Python value as far as the bridge looks at it: its type, and the
\* number of members of a dict or the value of an int
PyValue(type, n) == [type |-> type, n |-> n]
NoneValue == PyValue("NoneType", 0)
AbsentValue == PyValue(Absent, 0)
EmptyDict == PyValue("dict", 0)

\* bytes.decode('utf-8'): UnicodeDecodeError on a byte that is no UTF-8
Utf8Decode(bytes) ==
    IF \E i \in DOMAIN bytes : bytes[i] = BadByte
    THEN [ok |-> FALSE, text |-> << >>]
    ELSE [ok |-> TRUE, text |-> bytes]

RECURSIVE Strip(_)
Strip(t) ==
    IF t = << >> THEN t
    ELSE IF Head(t) = " " THEN Strip(Tail(t))
    ELSE IF t[Len(t)] = " " THEN Strip(SubSeq(t, 1, Len(t) - 1))
    ELSE t

RECURSIVE Ones(_)
Ones(k) == IF k = 0 THEN 0 ELSE 10 * Ones(k - 1) + 1

\* json.loads: one value with blanks around it, or JSONDecodeError
JsonLoads(text) ==
    LET t == Strip(text)
        bad == [ok |-> FALSE, value |-> NoneValue]
    IN IF t # << >> /\ \A i \in DOMAIN t : t[i] = "1"
       THEN [ok |-> TRUE, value |-> PyValue("int", Ones(Len(t)))]
       ELSE IF Len(t) >= 2 /\ t[1] = "{" /\ t[Len(t)] = "}"
       THEN LET inner == Strip(SubSeq(t, 2, Len(t) - 1))
            IN IF inner = << >> THEN [ok |-> TRUE, value |-> EmptyDict]
               ELSE IF inner = << Member >>
               THEN [ok |-> TRUE, value |-> PyValue("dict", 1)]
               ELSE bad
       ELSE bad

\* json.dumps of a payload dict of the tools
JsonDumps(v) ==
    IF v.n = 0 THEN << "{", "}" >> ELSE << "{", Member, "}" >>

\* ----------------------------------------------------------- dictionaries
\* a JSON object of the protocol: every key the bridge or the client sets,
\* Absent when the key is not in the dictionary
NoDict ==
    [success |-> Absent, error |-> << >>, error_type |-> Absent,
     endpoint |-> Absent, handler_function |-> Absent,
     returned_type |-> Absent, request_data |-> AbsentValue,
     available_endpoints |-> << Absent >>, status |-> Absent,
     status_code |-> Absent, response_body |-> Absent, payload |-> Absent,
     endpoints |-> << >>, dynamic_handlers |-> -1]

\* ------------------------------------------------------ the bridge handlers
\* what the function under @bridge_handler does with the request data: it
\* returns a value or raises.  handle_generate_building_massing is a try
\* block holding `pass`; the other handlers call the host application.
Returns(type, success, func) ==
    [kind |-> "return", type |-> type, success |-> success, func |-> func]
Raises(exc, func) ==
    [kind |-> "raise", type |-> exc, success |-> Absent, func |-> func]

FuncOutcomes(func) ==
    IF func = "handle_generate_building_massing"
    THEN {Returns("NoneType", Absent, func)}
    ELSE {Returns("dict", "True", func), Returns("dict", "False", func),
          Returns("dict", Absent, func), Returns("list", Absent, func),
          Raises("AttributeError", func), Raises("ValueError", func)}

\* the dictionary a handler function returned
FuncDict(o) == [NoDict EXCEPT !.success = o.success, !.payload = o.func]

Returned(d) == [raised |-> FALSE, exc |-> Absent, result |-> d]
Raised(exc) == [raised |-> TRUE, exc |-> exc, result |-> NoDict]

\* a wrapper whose error dictionary lacks error_type
wrapper_without_error_type(endpoint, func, data, o) ==
    IF o.kind = "raise"
    THEN Returned([NoDict EXCEPT
            !.success = "False", !.error = << o.type, ": ", "message" >>,
            !.endpoint = endpoint, !.handler_function = func,
            !.request_data = data])
    ELSE IF o.type # "dict"
    THEN Returned([NoDict EXCEPT
            !.success = "False", !.error_type = "InvalidReturnType",
            !.endpoint = endpoint, !.handler_function = func,
            !.returned_type = o.type])
    ELSE IF FuncDict(o).success = Absent
    THEN Returned([FuncDict(o) EXCEPT !.success = "True"])
    ELSE Returned(FuncDict(o))

\* a wrapper that returns the function's dictionary as it is
wrapper_without_success(endpoint, func, data, o) ==
    IF o.kind = "raise"
    THEN Returned([NoDict EXCEPT
            !.success = "False", !.error = << o.type, ": ", "message" >>,
            !.error_type = o.type, !.endpoint = endpoint,
            !.handler_function = func, !.request_data = data])
    ELSE IF o.type # "dict"
    THEN Returned([NoDict EXCEPT
            !.success = "False", !.error_type = "InvalidReturnType",
            !.endpoint = endpoint, !.handler_function = func,
            !.returned_type = o.type])
    ELSE Returned(FuncDict(o))

\* bridge_handler(endpoint)(func): the wrapper that is registered
wrapper(endpoint, func, data, o) ==
    IF o.kind = "raise"
    THEN Returned([NoDict EXCEPT
            !.success = "False",
            !.error = << o.type, ": ", "message" >>,
            !.error_type = o.type,
            !.endpoint = endpoint,
            !.handler_function = func,
            !.request_data = data])
    ELSE IF o.type # "dict"
    THEN Returned([NoDict EXCEPT
            !.success = "False",
            !.error = << "Handler ", func, " returned non-dict type: ", o.type >>,
            !.error_type = "InvalidReturnType",
            !.endpoint = endpoint,
            !.handler_function = func,
            !.returned_type = o.type])
    ELSE IF FuncDict(o).success = Absent
    THEN Returned([FuncDict(o) EXCEPT !.success = "True"])
    ELSE Returned(FuncDict(o))

\* the function _bridge_handlers holds under an endpoint is the wrapper
\* made for (endpoint, func): the table stores func, the call goes through
\* the wrapper
HandlerCall(endpoint, func, data, o) == wrapper(endpoint, func, data, o)

\* ------------------------------------------------------- requests, replies
\* an HTTP request: self.path is path, or path?query when query is not
\* empty; the Content-Length header is absent, the length of the body, or
\* not a number
Request(method, path, query, cl, body) ==
    [method |-> method, path |-> path, query |-> query,
     content_length |-> cl, body |-> body]
NoRequest == Request("none", Absent, "", "absent", << >>)

Response(code, data) == [status |-> code, body |-> data]
NoResponse == Response(0, NoDict)

\* str() of a status code, as the f-strings and json.dumps print it
StatusStr(code) ==
    CASE code = 200 -> "200" [] code = 400 -> "400"
      [] code = 404 -> "404" [] code = 500 -> "500"

\* Python's order of the endpoint strings
StrLess(a, b) ==
    \E i, j \in DOMAIN EndpointOrder :
        EndpointOrder[i] = a /\ EndpointOrder[j] = b /\ i < j

\* the keys in descending order
RECURSIVE InsertDescending(_, _)
InsertDescending(x, sq) ==
    IF sq = << >> THEN << x >>
    ELSE IF StrLess(Head(sq), x) THEN << x >> \o sq
    ELSE << Head(sq) >> \o InsertDescending(x, Tail(sq))

RECURSIVE sorted_descending(_)
sorted_descending(keys) ==
    IF keys = {} THEN << >>
    ELSE LET x == CHOOSE k \in keys : TRUE
         IN InsertDescending(x, sorted_descending(keys \ {x}))

\* sorted(keys): insertion into an ordered list
RECURSIVE Insert(_, _)
Insert(x, sq) ==
    IF sq = << >> THEN << x >>
    ELSE IF StrLess(x, Head(sq)) THEN << x >> \o sq
    ELSE << Head(sq) >> \o Insert(x, Tail(sq))

RECURSIVE sorted(_)
sorted(keys) ==
    IF keys = {} THEN << >>
    ELSE LET x == CHOOSE k \in keys : TRUE IN Insert(x, sorted(keys \ {x}))

\* RhinoBridgeHandler.send_json_response(data, status_code)
send_json_response(data, code) == Response(code, data)

\* one handled exchange: who asked, the request, the reply, the handlers run
Exchange(req, resp, calls) == [req |-> req, resp |-> resp, calls |-> calls]
NoExchange == Exchange(NoRequest, NoResponse, << >>)

\* one call of a registered handler: what it was called with, what the
\* function under the wrapper did, and what the call gave
HandlerRun(endpoint, func, data, o, r) ==
    [endpoint |-> endpoint, func |-> func, data |-> data,
     outcome |-> o, raised |-> r.raised, result |-> r.result]

\* the except Exception branch that closes do_POST
InternalError(exc, endpoint, request_data) ==
    send_json_response([NoDict EXCEPT
        !.success = "False",
        !.error = << "Internal server error: ", exc >>,
        !.error_type = exc,
        !.endpoint = endpoint,
        !.request_data = request_data], 500)

\* do_POST from "Try dynamic handler" on, request_data being parsed
Dispatch(req, endpoint, request_data, table, o) ==
    IF endpoint \in DOMAIN table
    THEN LET handler_func == table[endpoint]
             r == HandlerCall(endpoint, handler_func, request_data, o)
             run == << HandlerRun(endpoint, handler_func, request_data, o, r) >>
         IN IF ~r.raised
            THEN Exchange(req, send_json_response(r.result, 200), run)
            ELSE Exchange(req, send_json_response([NoDict EXCEPT
                    !.success = "False",
                    !.error = << "Handler error: ", r.exc >>,
                    !.error_type = r.exc,
                    !.endpoint = endpoint,
                    !.request_data = request_data], 500), run)
    ELSE Exchange(req, send_json_response([NoDict EXCEPT
            !.success = "False",
            !.error = << "Unknown endpoint: ", endpoint >>,
            !.error_type = "EndpointNotFound",
            !.endpoint = endpoint,
            !.available_endpoints = sorted(DOMAIN table)], 404), << >>)

\* self.path itself: the path with its query string
raw_path(req) == IF req.query = "" THEN req.path ELSE "path?query"

\* urllib.parse.urlparse(self.path).path
urlparse_path(req) == req.path

\* do_POST after the handlers were initialised: table is _dynamic_handlers,
\* o what the handler function does if it is called
PostResult(req, table, o) ==
    LET endpoint == urlparse_path(req)
    IN IF req.content_length = "garbage"
       THEN \* int() raises ValueError
            Exchange(req, InternalError("ValueError", endpoint, NoneValue), << >>)
       ELSE LET content_length ==
                    IF req.content_length = "absent" THEN 0 ELSE Len(req.body)
            IN IF content_length > 0
               THEN LET post_data == SubSeq(req.body, 1, content_length)
                        decoded == Utf8Decode(post_data)
                        parsed == JsonLoads(decoded.text)
                    IN IF ~decoded.ok
                       THEN Exchange(req,
                              InternalError("UnicodeDecodeError", endpoint, NoneValue),
                              << >>)
                       ELSE IF ~parsed.ok
                       THEN Exchange(req, send_json_response([NoDict EXCEPT
                                !.success = "False",
                                !.error = << "Invalid JSON in request body" >>,
                                !.error_type = "JSONDecodeError",
                                !.endpoint = endpoint], 400), << >>)
                       ELSE Dispatch(req, endpoint, parsed.value, table, o)
               ELSE Dispatch(req, endpoint, EmptyDict, table, o)

\* what the handler function of this request can do: one entry when the
\* request reaches no handler
OutcomesAt(table, req) ==
    IF /\ urlparse_path(req) \in DOMAIN table
       /\ PostResult(req, table,
             Returns("dict", "True", table[urlparse_path(req)])).calls # << >>
    THEN FuncOutcomes(table[urlparse_path(req)])
    ELSE {Returns("NoneType", Absent, "none")}

\* RhinoBridgeHandler.do_POST
do_POST(req) ==
    /\ IF ~_handlers_initialized THEN InitializeDynamicHandlers
       ELSE UNCHANGED << regVars, dynVars >>
    /\ \E o \in OutcomesAt(_dynamic_handlers', req) :
            last' = PostResult(req, _dynamic_handlers', o)

\* RhinoBridgeHandler.send_status_response
send_status_response ==
    send_json_response([NoDict EXCEPT !.status = "running"], 200)

\* RhinoBridgeHandler.send_info_response, the handlers being initialised
send_info_response(table) ==
    LET builtin == << [path |-> "/status", method |-> "GET"],
                      [path |-> "/info", method |-> "GET"] >>
        keys == sorted(DOMAIN table)
        dynamic == [i \in DOMAIN keys |-> [path |-> keys[i], method |-> "POST"]]
    IN send_json_response([NoDict EXCEPT
            !.endpoints = builtin \o dynamic,
            !.dynamic_handlers = Cardinality(DOMAIN table)], 200)

\* RhinoBridgeHandler.send_error_response(status_code, message)
send_error_response(code, message) ==
    send_json_response([NoDict EXCEPT
        !.success = "False",
        !.error = << message >>,
        !.status_code = StatusStr(code)], code)

\* a do_GET whose /status initialises the handlers as /info does
do_GET_status_initialises(req) ==
    IF (req.path = "/status" \/ req.path = "/info") /\ req.query = ""
    THEN /\ IF ~_handlers_initialized THEN InitializeDynamicHandlers
            ELSE UNCHANGED << regVars, dynVars >>
         /\ last' = Exchange(req,
                IF req.path = "/status" THEN send_status_response
                ELSE send_info_response(_dynamic_handlers'), << >>)
    ELSE /\ last' = Exchange(req, send_error_response(404, "Endpoint not found"), << >>)
         /\ UNCHANGED << regVars, dynVars >>

\* RhinoBridgeHandler.do_GET: self.path is compared with its query string
do_GET(req) ==
    IF req.path = "/status" /\ req.query = ""
    THEN /\ last' = Exchange(req, send_status_response, << >>)
         /\ UNCHANGED << regVars, dynVars >>
    ELSE IF req.path = "/info" /\ req.query = ""
    THEN /\ IF ~_handlers_initialized THEN InitializeDynamicHandlers
            ELSE UNCHANGED << regVars, dynVars >>
         /\ last' = Exchange(req, send_info_response(_dynamic_handlers'), << >>)
    ELSE /\ last' = Exchange(req, send_error_response(404, "Endpoint not found"), << >>)
         /\ UNCHANGED << regVars, dynVars >>

\* ------------------------------------------------ requests of any HTTP client
Bodies == UNION {[1..k -> Alphabet] : k \in 0..MaxBodyLen}
Queries == {"", "x=1"}
PostPaths == {"/draw_line", "/generate_building_massing", "/nope"}
GetPaths == {"/status", "/info", "/draw_line"}

\* every body with its length as Content-Length; a query string, a missing
\* and a malformed Content-Length with a few bodies
PostRequests ==
    {Request("POST", p, "", "exact", b) : p \in PostPaths, b \in Bodies}
    \cup {Request("POST", p, "x=1", "exact", b) :
            p \in PostPaths, b \in {<< >>, << "{", "}" >>, << "{" >>}}
    \cup {Request("POST", p, "", cl, b) :
            p \in PostPaths, cl \in {"absent", "garbage"}, b \in {<< >>, << "{" >>}}
GetRequests ==
    {Request("GET", p, q, "absent", << >>) : p \in GetPaths, q \in Queries}

\* the one serve_forever thread takes a request when it is idle and runs
\* its handler to the end; `last` is the exchange until the connection is
\* finished
ServePost ==
    /\ Serving # {}
    /\ ThreadIdle
    /\ \E req \in PostRequests : do_POST(req)
    /\ UNCHANGED << envVars, conns, srvVars, mcpVars >>

ServeGet ==
    /\ Serving # {}
    /\ ThreadIdle
    /\ \E req \in GetRequests : do_GET(req)
    /\ UNCHANGED << envVars, conns, srvVars, mcpVars >>

\* BaseHTTPRequestHandler.finish: the handler returns, the thread is idle
FinishRequest ==
    /\ ~ThreadIdle
    /\ last' = NoExchange
    /\ UNCHANGED << envVars, conns, regVars, dynVars, srvVars, mcpVars >>

\* ----------------------------------------------------- the MCP bridge client
\* request_data of a tool: a dictionary with members
RequestData == PyValue("dict", 1)

Call(endpoint, data) == [endpoint |-> endpoint, data |-> data]

\* the call_bridge_api call that is the body of a tool function; the
\* custom tools call none
ToolBody(name) ==
    CASE name = "draw_line_rhino" -> Call("/draw_line", RequestData)
      [] name = "get_active_gh_files" -> Call("/get_active_gh_files", EmptyDict)
      [] name = "list_grasshopper_sliders" -> Call("/list_sliders", RequestData)
      [] name = "generate_building_massing" ->
            Call("/generate_building_massing", RequestData)
      [] name = "list_gh_files" -> Call("/list_gh_files", EmptyDict)
      [] name = "set_grasshopper_slider" -> Call("/set_slider", RequestData)
      [] name = "list_eml_parameters" -> Call("/list_eml_parameters", EmptyDict)
      [] name = "get_eml_parameter_value" ->
            Call("/get_eml_parameter_value", RequestData)
      [] name = "set_eml_parameter_value" ->
            Call("/set_eml_parameter_value", RequestData)
      [] name = "suggest_eml_connections" ->
            Call("/suggest_eml_connections", EmptyDict)
      [] OTHER -> Call(Absent, AbsentValue)

\* get_bridge_status() and get_bridge_info(): call_bridge_api(endpoint)
get_bridge_status == Call("/status", NoneValue)
get_bridge_info == Call("/info", NoneValue)

\* requests.get(url, timeout=10)
requests_get(endpoint) == Request("GET", endpoint, "", "absent", << >>)

\* requests.post(url, json=data, ...): the body is json.dumps(data)
requests_post(endpoint, data) ==
    Request("POST", endpoint, "", "exact", JsonDumps(data))

\* "if not data": an empty dictionary goes the GET way
send_if_not_data(endpoint, data) ==
    IF data = NoneValue \/ data = EmptyDict THEN requests_get(endpoint)
    ELSE requests_post(endpoint, data)

\* call_bridge_api, the request it sends: "if data is None"
send(endpoint, data) ==
    IF data = NoneValue THEN requests_get(endpoint)
    ELSE requests_post(endpoint, data)

\* the classes of the exceptions requests raises here, with their bases
Mro(exc) ==
    CASE exc = "ConnectionError" -> {"ConnectionError", "RequestException"}
      [] exc = "ConnectTimeout" ->
            {"ConnectTimeout", "ConnectionError", "Timeout", "RequestException"}
      [] exc = "ReadTimeout" -> {"ReadTimeout", "Timeout", "RequestException"}
      [] exc = "HTTPError" -> {"HTTPError", "RequestException"}
      [] exc = "ChunkedEncodingError" ->
            {"ChunkedEncodingError", "RequestException"}
      [] OTHER -> {exc}

\* what the request came to on the wire: the exception requests.get/post
\* raised (then response is still None), or the response; long tells that
\* the response text has more than 1000 characters
Wire(exc, response, long) == [exc |-> exc, response |-> response, long |-> long]
NoWire == Wire(Absent, NoResponse, FALSE)

\* response.raise_for_status() raises HTTPError
raise_for_status(response) == response.status >= 400 /\ response.status < 600

\* bool(response): Response.__bool__ is Response.ok, False for 4xx and 5xx;
\* response is None when the status is 0
Truthy(response) == response.status # 0 /\ ~raise_for_status(response)

\* a str: json.dumps of doc, or the literal `kind`
Text(kind, doc, long) == [kind |-> kind, doc |-> doc, long |-> long, chars |-> "all"]
NoText == Text(Absent, NoDict, FALSE)
\* response.text
ResponseText(response, long) == Text("json", response.body, long)
\* text[:1000]
First1000(text) == IF text.long THEN [text EXCEPT !.chars = "first 1000"] ELSE text

\* the dictionaries call_bridge_api builds
NoClientDict ==
    [success |-> Absent, error |-> << >>, error_type |-> Absent,
     endpoint |-> Absent, bridge_url |-> Absent, status_code |-> Absent,
     response_body |-> NoText, request_data |-> AbsentValue]

ConnectionErrorDict(endpoint) ==
    [NoClientDict EXCEPT
        !.success = "False",
        !.error = << "Cannot connect to Rhino Bridge Server at ", "BRIDGE_URL" >>,
        !.error_type = "ConnectionError",
        !.endpoint = endpoint,
        !.bridge_url = "BRIDGE_URL"]

TimeoutDict(endpoint, data) ==
    [NoClientDict EXCEPT
        !.success = "False",
        !.error = << "Request to Rhino Bridge Server timed out after 10 seconds" >>,
        !.error_type = "Timeout",
        !.endpoint = endpoint,
        !.request_data = data]

HTTPErrorDict(endpoint, data, w) ==
    LET status_code == IF Truthy(w.response) THEN StatusStr(w.response.status)
                       ELSE "unknown"
        response_text == IF Truthy(w.response)
                         THEN ResponseText(w.response, w.long)
                         ELSE Text("No response", NoDict, FALSE)
    IN [NoClientDict EXCEPT
        !.success = "False",
        !.error = << "HTTP ", status_code, " error from bridge server" >>,
        !.error_type = "HTTPError",
        !.status_code = status_code,
        !.endpoint = endpoint,
        !.response_body = First1000(response_text),
        !.request_data = data]

RequestExceptionDict(endpoint, data, exc, w) ==
    LET response_text == IF Truthy(w.response)
                         THEN ResponseText(w.response, w.long)
                         ELSE Text("No response", NoDict, FALSE)
    IN [NoClientDict EXCEPT
        !.success = "False",
        !.error = << "Bridge API request failed: ", exc >>,
        !.error_type = "RequestException",
        !.endpoint = endpoint,
        !.response_body = First1000(response_text),
        !.request_data = data]

\* what a call_bridge_api call comes to: the exception that leaves it, or
\* the dictionary it returns, response.json() or one it built
ReturnsJson(doc) == [raised |-> Absent, json |-> doc, dict |-> NoClientDict]
ReturnsDict(d) == [raised |-> Absent, json |-> NoDict, dict |-> d]
Escapes(exc) == [raised |-> exc, json |-> NoDict, dict |-> NoClientDict]

\* the except clauses with RequestException as the first
call_bridge_api_generic_first(endpoint, data, w) ==
    LET exc == IF w.exc # Absent THEN w.exc
               ELSE IF raise_for_status(w.response) THEN "HTTPError"
               ELSE Absent
    IN IF exc = Absent THEN ReturnsJson(w.response.body)
       ELSE IF "RequestException" \in Mro(exc)
       THEN ReturnsDict(RequestExceptionDict(endpoint, data, exc, w))
       ELSE Escapes(exc)

\* call_bridge_api(endpoint, data) after the request was sent: w is what
\* requests.get/post came to
call_bridge_api(endpoint, data, w) ==
    LET exc == IF w.exc # Absent THEN w.exc
               ELSE IF raise_for_status(w.response) THEN "HTTPError"
               ELSE Absent
    IN IF exc = Absent THEN ReturnsJson(w.response.body)
       ELSE IF "ConnectionError" \in Mro(exc)
       THEN ReturnsDict(ConnectionErrorDict(endpoint))
       ELSE IF "Timeout" \in Mro(exc)
       THEN ReturnsDict(TimeoutDict(endpoint, data))
       ELSE IF "HTTPError" \in Mro(exc)
       THEN ReturnsDict(HTTPErrorDict(endpoint, data, w))
       ELSE IF "RequestException" \in Mro(exc)
       THEN ReturnsDict(RequestExceptionDict(endpoint, data, exc, w))
       ELSE Escapes(exc)

\* a call in progress: who called, with what, the request sent
Pending(caller, c, stage, response) ==
    [caller |-> caller, endpoint |-> c.endpoint, data |-> c.data,
     req |-> send(c.endpoint, c.data), stage |-> stage, response |-> response]
NoCall ==
    [caller |-> Absent, endpoint |-> Absent, data |-> AbsentValue,
     req |-> NoRequest, stage |-> "none", response |-> NoResponse]

\* a finished call: the call, the wire, the result
Finished(call, w, r) == [call |-> call, wire |-> w, result |-> r]
NoReturn == Finished(NoCall, NoWire, ReturnsDict(NoClientDict))

\* a server of the bridge process listens where the client connects
BridgeListening ==
    \E i \in Serving : instances[i].port = BRIDGE_PORT

\* a check that takes every answer for a running bridge
check_any_answer(r) == IF r.raised # Absent THEN "False" ELSE "True"

\* check_bridge_connection() once get_bridge_status() came to r: an
\* exception is caught, status.get("status") is compared with "running"
check_bridge_connection(r) ==
    IF r.raised # Absent THEN "False"
    ELSE IF r.json.status = "running" THEN "True"
    ELSE "False"

\* __main__ after a call returned: the call of check_bridge_connection is
\* followed by mcp.run, whatever it returned
MainAfterCall(r) ==
    IF mcp_pc = "check"
    THEN /\ bridge_ok' = check_bridge_connection(r)
         /\ mcp_pc' = "run"
    ELSE UNCHANGED << mcp_pc, bridge_ok >>

\* call_bridge_api up to the connection: refused or unanswered without a
\* listener, the request sent otherwise
CallBridgeApi(caller, c) ==
    /\ pending = NoCall
    /\ ret = NoReturn
    /\ IF BridgeListening
       THEN /\ pending' = Pending(caller, c, "sent", NoResponse)
            /\ UNCHANGED << ret, mcp_pc, bridge_ok >>
       ELSE \E exc \in {"ConnectionError", "ConnectTimeout"} :
            LET call == Pending(caller, c, "none", NoResponse)
                w == Wire(exc, NoResponse, FALSE)
            IN /\ ret' = Finished(call, w, call_bridge_api(c.endpoint, c.data, w))
               /\ MainAfterCall(ret'.result)
               /\ UNCHANGED pending
    /\ UNCHANGED << envVars, conns, regVars, dynVars, srvVars, last, mcp_tools, totals >>

\* ToolDefinition.to_dict
to_dict(tool) ==
    [name |-> tool.name, description |-> tool.description,
     function |-> tool.function]

\* get_rhino_tools(), get_gh_tools(), get_custom_tools() on a registry list
get_tools(list) == [i \in DOMAIN list |-> to_dict(list[i])]

\* a register_tools that registers the Rhino tools first
register_tools_rhino_first(custom, rhino, gh) ==
    [tools |-> get_tools(rhino) \o get_tools(custom) \o get_tools(gh),
     totals |-> << Len(custom), Len(rhino), Len(gh) >>]

\* register_tools() after discover_tools(): the mcp.tool calls in their
\* order, and the triple returned
register_tools(custom, rhino, gh) ==
    [tools |-> get_tools(custom) \o get_tools(rhino) \o get_tools(gh),
     totals |-> << Len(custom), Len(rhino), Len(gh) >>]

\* register_tools() in __main__; an exception of discover_tools ends it
RegisterTools ==
    /\ mcp_pc = "main"
    /\ \E files \in ListdirOrders, listed \in BOOLEAN :
        /\ DiscoverIn("mcp", files, listed)
        /\ IF listed
           THEN LET r == register_tools(_custom_tools'["mcp"],
                            _rhino_tools'["mcp"], _gh_tools'["mcp"])
                IN /\ mcp_tools' = mcp_tools \o r.tools
                   /\ totals' = r.totals
                   /\ mcp_pc' = "check"
           ELSE /\ mcp_pc' = "crashed"
                /\ UNCHANGED << mcp_tools, totals >>
    /\ UNCHANGED << envVars, conns, dynVars, srvVars, last, pending, ret, bridge_ok >>

\* check_bridge_connection(): get_bridge_status()
CheckBridgeConnection ==
    /\ mcp_pc = "check"
    /\ CallBridgeApi("get_bridge_status", get_bridge_status)

\* mcp.run: the client invokes a registered tool that calls the bridge
CallTool ==
    /\ mcp_pc = "run"
    /\ \E i \in DOMAIN mcp_tools :
        /\ ToolBody(mcp_tools[i].function).endpoint # Absent
        /\ CallBridgeApi(mcp_tools[i].name, ToolBody(mcp_tools[i].function))

\* a call of get_bridge_status() or get_bridge_info()
BridgeQuery ==
    /\ mcp_pc = "run"
    /\ \/ CallBridgeApi("get_bridge_status", get_bridge_status)
       \/ CallBridgeApi("get_bridge_info", get_bridge_info)

\* the bridge takes the client's request and answers it
BridgeServes ==
    /\ pending.stage = "sent"
    /\ BridgeListening
    /\ ThreadIdle
    /\ IF pending.req.method = "GET" THEN do_GET(pending.req)
       ELSE do_POST(pending.req)
    /\ pending' = [pending EXCEPT !.stage = "answered", !.response = last'.resp]
    /\ UNCHANGED << envVars, conns, srvVars, mcp_pc, mcp_tools, totals, ret, bridge_ok >>

\* call_bridge_api from the response on
ReturnResponse ==
    /\ pending.stage = "answered"
    /\ \E long \in (IF raise_for_status(pending.response) THEN BOOLEAN ELSE {FALSE}) :
        LET w == Wire(Absent, pending.response, long)
        IN ret' = Finished(pending, w,
                    call_bridge_api(pending.endpoint, pending.data, w))
    /\ pending' = NoCall
    /\ MainAfterCall(ret'.result)
    /\ UNCHANGED << envVars, conns, regVars, dynVars, srvVars, last, mcp_tools, totals >>

\* requests.get/post raises after the connection: no answer in 10 seconds,
\* the server closed before it answered, or the answer breaks off
ReturnFailure ==
    /\ pending.stage # "none"
    /\ \E exc \in {"ReadTimeout", "ConnectionError", "ChunkedEncodingError"} :
        /\ exc = "ReadTimeout" => pending.stage = "sent"
        /\ exc = "ConnectionError" => pending.stage = "sent" /\ ~BridgeListening
        /\ exc = "ChunkedEncodingError" => pending.stage = "answered"
        /\ LET w == Wire(exc, NoResponse, FALSE)
           IN ret' = Finished(pending, w,
                        call_bridge_api(pending.endpoint, pending.data, w))
    /\ pending' = NoCall
    /\ MainAfterCall(ret'.result)
    /\ UNCHANGED << envVars, conns, regVars, dynVars, srvVars, last, mcp_tools, totals >>

\* the caller has taken the dictionary
ReturnToCaller ==
    /\ ret # NoReturn
    /\ ret' = NoReturn
    /\ UNCHANGED << envVars, conns, regVars, dynVars, srvVars, last,
                    mcp_pc, mcp_tools, totals, pending, bridge_ok >>

\* ------------------------------------------- the serve_forever thread, by step
\* the requests of the clients whose connections are followed step by step
ThreadRequests ==
    {Request("POST", p, "", "exact", << "{", "}" >>) : p \in {"/draw_line", "/nope"}}
    \cup {Request("GET", "/status", "", "absent", << >>)}

\* a client connects to a listening server: the connection is queued
Connect ==
    /\ \E c \in Clients, i \in Serving :
        /\ conns[c] = NoConn
        /\ conns' = [conns EXCEPT ![c] = Conn("queued", i)]
    /\ UNCHANGED << envVars, regVars, dynVars, srvVars, last, mcpVars >>

\* serve_forever accepts a queued connection and calls the request handler
Accept ==
    /\ \E c \in Clients :
        /\ conns[c].stage = "queued"
        /\ conns[c].inst \in Serving
        /\ serve_forever_idle(conns[c].inst)
        /\ conns' = [conns EXCEPT ![c].stage = "handler"]
    /\ UNCHANGED << envVars, regVars, dynVars, srvVars, last, mcpVars >>

\* the handler runs do_GET or do_POST up to its response
Handle ==
    /\ \E c \in Clients :
        /\ conns[c].stage = "handler"
        /\ conns' = [conns EXCEPT ![c].stage = "responding"]
    /\ \E req \in ThreadRequests :
        IF req.method = "GET" THEN do_GET(req) ELSE do_POST(req)
    /\ UNCHANGED << envVars, srvVars, mcpVars >>

\* the response is written and the handler returns to serve_forever
Respond ==
    /\ \E c \in Clients :
        /\ conns[c].stage = "responding"
        /\ conns' = [conns EXCEPT ![c] = NoConn]
    /\ last' = NoExchange
    /\ UNCHANGED << envVars, regVars, dynVars, srvVars, mcpVars >>

\* ------------------------------------------------ Grasshopper documents
\* a str as its characters
GhName(c) == << c, ".", "g", "h" >>
eml_a == << "e", "m", "l", "_", "a" >>
EML_b == << "E", "M", "L", "_", "b" >>
eml == << "e", "m", "l" >>
width == << "w" >>
height == << "h" >>

\* str.lower on the characters the names hold
LowerChar(c) ==
    CASE c = "A" -> "a" [] c = "B" -> "b" [] c = "E" -> "e"
      [] c = "M" -> "m" [] c = "L" -> "l" [] OTHER -> c
lower(s) == [i \in DOMAIN s |-> LowerChar(s[i])]

\* str.startswith
startswith(s, prefix) ==
    Len(s) >= Len(prefix) /\ SubSeq(s, 1, Len(prefix)) = prefix

\* os.path.basename of a path given by its components
basename(path) == IF path = << >> THEN << >> ELSE path[Len(path)]

\* an object of a document: its type name, NickName, whether it has
\* sources and recipients, its slider value, and whether its properties
\* can be read without an exception
GhObject(type, nick, sources, recipients, value, readable) ==
    [type |-> type, NickName |-> nick, sources |-> sources,
     recipients |-> recipients, Value |-> value, readable |-> readable]
NumberSlider(nick, value) ==
    GhObject("GH_NumberSlider", nick, FALSE, TRUE, value, TRUE)

\* the documents of the user: two files and a canvas never saved
NoDoc == "no document"
Docs == {"doc_A", "doc_b", "doc_new"}
FilePath(d) ==
    CASE d = "doc_A" -> << << "C", ":" >>, GhName("A") >>
      [] d = "doc_b" -> << << "C", ":" >>, GhName("b") >>
      [] d = "doc_new" -> << >>
FileObjects(d) ==
    CASE d = "doc_A" -> << NumberSlider(width, 1), NumberSlider(height, 1),
                           NumberSlider(width, 1) >>
      [] d = "doc_b" -> << GhObject("GH_Panel", width, TRUE, FALSE, 0, TRUE),
                           NumberSlider(width, 1) >>
      [] d = "doc_new" -> << >>

\* what a request names
FileNames == {<< >>, GhName("A"), GhName("a"), GhName("b"), GhName("c")}
SliderNames == {width, height, eml}
NewValues == (0 - 1)..(MaxSlider + 1)

SliderData(file_name, slider_name, new_value) ==
    [file_name |-> file_name, slider_name |-> slider_name,
     new_value |-> new_value]
NoSliderData == SliderData(<< >>, << >>, 0)

\* the keys of eml_params, in the order the handler creates them
CategoryOrder == <<
    "sliders", "panels", "boolean_toggles", "value_lists",
    "number_primitives", "text_primitives", "integer_primitives",
    "geometry_params" >>
Categories == {CategoryOrder[i] : i \in DOMAIN CategoryOrder}
NoEml == [c \in Categories |-> << >>]
NoSummary == [c \in Categories \cup {"total_count"} |-> 0 - 1]

\* the dictionary a gh_tools handler returns
GhDict ==
    [success |-> Absent, error |-> Absent, sliders |-> << >>, count |-> Absent,
     old_value |-> Absent, new_value |-> Absent, clamped |-> Absent,
     eml_parameters |-> NoEml, summary |-> NoSummary]
GhError(error) == [GhDict EXCEPT !.success = "False", !.error = error]

\* a finished handler call: the handler, its data, the document whose
\* objects it went through, and the dictionary returned
GhReturn(handler, data, doc, result) ==
    [handler |-> handler, data |-> data, doc |-> doc, result |-> result]
NoGhReturn == GhReturn(Absent, NoSliderData, NoDoc, GhDict)

\* how the handler finds Rhino: imports and plug-in there, no Grasshopper
\* plug-in object, or no Grasshopper module to import
RhinoStates == {"ok", "no plugin", "ImportError"}

\* ensure_file_is_active(file_name)
ensure_file_is_active(file_name) ==
    IF file_name = << >> THEN [GhDict EXCEPT !.success = "True"]
    ELSE IF /\ gh_active # NoDoc
            /\ FilePath(gh_active) # << >>
            /\ lower(basename(FilePath(gh_active))) = lower(file_name)
    THEN [GhDict EXCEPT !.success = "True"]
    ELSE GhError("File is not active. Please open the file in Grasshopper first.")

\* the checks the slider handlers make before they go through the objects
SliderPrelude(file_name, rhino) ==
    IF rhino = "ImportError" THEN GhError("Grasshopper not available")
    ELSE IF ensure_file_is_active(file_name).success # "True"
    THEN ensure_file_is_active(file_name)
    ELSE IF rhino = "no plugin" THEN GhError("Grasshopper plugin not available")
    ELSE IF gh_active = NoDoc THEN GhError("No active Grasshopper document found")
    ELSE [GhDict EXCEPT !.success = "True"]

IsSlider(obj) == obj.type = "GH_NumberSlider"

\* obj.NickName or "Unnamed"
SliderName(obj) ==
    IF obj.NickName = << >> THEN << "Unnamed" >> ELSE obj.NickName

\* the sliders of a document in the order of its Objects
RECURSIVE Sliders(_)
Sliders(objs) ==
    IF objs = << >> THEN << >>
    ELSE (IF IsSlider(Head(objs))
          THEN << [name |-> SliderName(Head(objs)),
                   current_value |-> Head(objs).Value] >>
          ELSE << >>) \o Sliders(Tail(objs))

\* max(Minimum, min(Maximum, new_value))
Clamp(v) == IF v < 0 THEN 0 ELSE IF v > MaxSlider THEN MaxSlider ELSE v

\* the first slider of the objects with that name, 0 when there is none
FirstSlider(objs, name) ==
    LET found == {i \in DOMAIN objs :
                    IsSlider(objs[i]) /\ SliderName(objs[i]) = name}
    IN IF found = {} THEN 0
       ELSE CHOOSE i \in found : \A j \in found : i <= j

\* handle_list_sliders(data)
handle_list_sliders(data, rhino) ==
    LET pre == SliderPrelude(data.file_name, rhino)
        sliders == Sliders(gh_objects[gh_active])
    IN /\ gh_ret' = GhReturn("handle_list_sliders", data,
            IF pre.success = "True" THEN gh_active ELSE NoDoc,
            IF pre.success # "True" THEN pre
            ELSE [GhDict EXCEPT !.success = "True", !.sliders = sliders,
                                !.count = Len(sliders)])
       /\ UNCHANGED << gh_open, gh_objects, gh_active >>

\* handle_set_slider(data)
handle_set_slider(data, rhino) ==
    LET pre == SliderPrelude(data.file_name, rhino)
        objs == gh_objects[gh_active]
        i == FirstSlider(objs, data.slider_name)
    IN /\ IF pre.success # "True"
          THEN /\ gh_ret' = GhReturn("handle_set_slider", data, NoDoc, pre)
               /\ UNCHANGED gh_objects
          ELSE IF i = 0
          THEN /\ gh_ret' = GhReturn("handle_set_slider", data, gh_active,
                                GhError("Slider not found"))
               /\ UNCHANGED gh_objects
          ELSE /\ gh_ret' = GhReturn("handle_set_slider", data, gh_active,
                        [GhDict EXCEPT !.success = "True",
                            !.old_value = objs[i].Value,
                            !.new_value = Clamp(data.new_value),
                            !.clamped = Clamp(data.new_value) # data.new_value])
               /\ gh_objects' = [gh_objects EXCEPT
                        ![gh_active][i].Value = Clamp(data.new_value)]
       /\ UNCHANGED << gh_open, gh_active >>

\* the user opens a file, or a new canvas, in Grasshopper: it is shown
OpenDocument ==
    /\ gh_ret = NoGhReturn
    /\ \E d \in Docs \ gh_open :
        /\ gh_open' = gh_open \cup {d}
        /\ gh_objects' = [gh_objects EXCEPT ![d] = FileObjects(d)]
        /\ gh_active' = d
    /\ UNCHANGED << insVars, regVars, dynVars, srvVars, last, mcpVars, conns,
                    gh_ret >>

\* the user brings another open document to the canvas
ShowDocument ==
    /\ gh_ret = NoGhReturn
    /\ \E d \in gh_open \ {gh_active} : gh_active' = d
    /\ UNCHANGED << insVars, regVars, dynVars, srvVars, last, mcpVars, conns,
                    gh_open, gh_objects, gh_ret >>

\* the user closes the document shown; the canvas shows another or none
CloseDocument ==
    /\ gh_ret = NoGhReturn
    /\ gh_active # NoDoc
    /\ gh_open' = gh_open \ {gh_active}
    /\ gh_objects' = [gh_objects EXCEPT ![gh_active] = << >>]
    /\ gh_active' \in IF gh_open' = {} THEN {NoDoc} ELSE gh_open'
    /\ UNCHANGED << insVars, regVars, dynVars, srvVars, last, mcpVars, conns,
                    gh_ret >>

\* the bridge calls the handler of /list_sliders
HandleListSliders ==
    /\ gh_ret = NoGhReturn
    /\ \E file_name \in FileNames, rhino \in RhinoStates :
        handle_list_sliders(SliderData(file_name, << >>, 0), rhino)
    /\ UNCHANGED << insVars, regVars, dynVars, srvVars, last, mcpVars, conns >>

\* the bridge calls the handler of /set_slider
HandleSetSlider ==
    /\ gh_ret = NoGhReturn
    /\ \E file_name \in FileNames, slider_name \in SliderNames,
          new_value \in NewValues, rhino \in RhinoStates :
        handle_set_slider(SliderData(file_name, slider_name, new_value), rhino)
    /\ UNCHANGED << insVars, regVars, dynVars, srvVars, last, mcpVars, conns >>

\* the type names of the components a user places
ComponentTypes ==
    {"GH_NumberSlider", "GH_Panel", "GH_BooleanToggle", "GH_ValueList",
     "Param_Number", "Param_Integer", "Param_String", "Param_Curve",
     "Param_Boolean", "GH_Group"}

\* the branch of the if/elif chain that takes an object of this type:
\* isinstance for the four special components, then the type name holding
\* 'Param_Number', 'Param_Integer', 'Param_String' or a geometry name;
\* Absent when no branch takes it
Category(type) ==
    CASE type = "GH_NumberSlider" -> "sliders"
      [] type = "GH_Panel" -> "panels"
      [] type = "GH_BooleanToggle" -> "boolean_toggles"
      [] type = "GH_ValueList" -> "value_lists"
      [] type = "Param_Number" -> "number_primitives"
      [] type = "Param_Integer" -> "integer_primitives"
      [] type = "Param_String" -> "text_primitives"
      [] type = "Param_Curve" -> "geometry_params"
      [] OTHER -> Absent

\* a direction that takes sources for the input side
direction_swapped(has_sources, has_recipients) ==
    IF has_sources /\ has_recipients THEN "passthrough"
    ELSE IF has_sources THEN "input"
    ELSE IF has_recipients THEN "output"
    ELSE "isolated"

\* the direction of base_info
direction(has_sources, has_recipients) ==
    IF has_sources /\ has_recipients THEN "passthrough"
    ELSE IF has_sources THEN "output"
    ELSE IF has_recipients THEN "input"
    ELSE "isolated"

\* base_info of the object at position guid of the document
base_info(obj, guid) ==
    [name |-> obj.NickName, guid |-> guid,
     direction |-> direction(obj.sources, obj.recipients),
     has_sources |-> obj.sources, has_recipients |-> obj.recipients]

\* the loop over gh_doc.Objects from position i on: an object without the
\* prefix is passed over, as is one that raises or that no branch takes
RECURSIVE ScanObjects(_, _, _)
ScanObjects(objs, i, eml_params) ==
    IF i > Len(objs) THEN eml_params
    ELSE LET obj == objs[i]
         IN IF ~startswith(lower(obj.NickName), << "e", "m", "l", "_" >>)
            THEN ScanObjects(objs, i + 1, eml_params)
            ELSE IF ~obj.readable
            THEN ScanObjects(objs, i + 1, eml_params)
            ELSE IF Category(obj.type) = Absent
            THEN ScanObjects(objs, i + 1, eml_params)
            ELSE ScanObjects(objs, i + 1,
                    [eml_params EXCEPT ![Category(obj.type)] =
                        Append(@, base_info(obj, i))])

\* sum(len(v) for v in eml_params.values())
RECURSIVE SumLen(_, _)
SumLen(eml_params, keys) ==
    IF keys = {} THEN 0
    ELSE LET k == CHOOSE k \in keys : TRUE
         IN Len(eml_params[k]) + SumLen(eml_params, keys \ {k})

\* handle_list_eml_parameters(data)
handle_list_eml_parameters(rhino) ==
    LET eml_params == ScanObjects(gh_objects[gh_active], 1, NoEml)
        result ==
            IF rhino = "ImportError" THEN GhError("Grasshopper not available")
            ELSE IF rhino = "no plugin"
            THEN GhError("Grasshopper plugin not available")
            ELSE IF gh_active = NoDoc
            THEN GhError("No active Grasshopper document found")
            ELSE [GhDict EXCEPT
                    !.success = "True",
                    !.eml_parameters = eml_params,
                    !.summary = [k \in Categories \cup {"total_count"} |->
                        IF k = "total_count" THEN SumLen(eml_params, Categories)
                        ELSE Len(eml_params[k])]]
    IN /\ gh_ret' = GhReturn("handle_list_eml_parameters", NoSliderData,
                        IF result.success = "True" THEN gh_active ELSE NoDoc,
                        result)
       /\ UNCHANGED << gh_open, gh_objects, gh_active >>

\* the components a user places on a canvas
Palette ==
    {GhObject(t, eml_a, FALSE, FALSE, 0, TRUE) :
        t \in ComponentTypes \ {"GH_NumberSlider"}}
    \cup {GhObject("GH_Panel", width, FALSE, FALSE, 0, TRUE)}
    \cup {GhObject("GH_NumberSlider", n, src, rec, 1, TRUE) :
            n \in {eml_a, EML_b, eml, width}, src \in BOOLEAN, rec \in BOOLEAN}
    \cup {GhObject("GH_NumberSlider", eml_a, FALSE, FALSE, 1, FALSE)}

\* the user places a component on the canvas shown, a new one not yet
\* saved; the two files stay as they are stored
PlaceComponent ==
    /\ gh_ret = NoGhReturn
    /\ gh_active # NoDoc
    /\ FilePath(gh_active) = << >>
    /\ Len(gh_objects[gh_active]) < MaxObjects
    /\ \E obj \in Palette :
        gh_objects' = [gh_objects EXCEPT ![gh_active] = Append(@, obj)]
    /\ UNCHANGED << insVars, regVars, dynVars, srvVars, last, mcpVars, conns,
                    gh_open, gh_active, gh_ret >>

\* the bridge calls the handler of /list_eml_parameters
HandleListEmlParameters ==
    /\ gh_ret = NoGhReturn
    /\ \E rhino \in RhinoStates : handle_list_eml_parameters(rhino)
    /\ UNCHANGED << insVars, regVars, dynVars, srvVars, last, mcpVars, conns >>

\* the wrapper has the handler's dictionary and the handler is done
HandlerReturns ==
    /\ gh_ret # NoGhReturn
    /\ gh_ret' = NoGhReturn
    /\ UNCHANGED << insVars, regVars, dynVars, srvVars, last, mcpVars, conns,
                    gh_open, gh_objects, gh_active >>

vars == << envVars, regVars, dynVars, srvVars, last, mcpVars, conns >>

Init ==
    /\ broken \in SUBSET ToolModules
    /\ DYNAMIC_HANDLERS_AVAILABLE \in BOOLEAN
    \* an installation whose registry module the bridge cannot import is
    \* taken with tool modules that all import
    /\ ~DYNAMIC_HANDLERS_AVAILABLE => broken = {}
    /\ _rhino_tools = [p \in Proc |-> << >>]
    /\ _gh_tools = [p \in Proc |-> << >>]
    /\ _custom_tools = [p \in Proc |-> << >>]
    /\ _bridge_handlers = [p \in Proc |-> EmptyHandlers]
    /\ sys_modules = [p \in Proc |-> {}]
    /\ discover_outcome = [p \in Proc |-> "none"]
    /\ _handlers_initialized = FALSE
    /\ _dynamic_handlers = EmptyHandlers
    /\ bridge_server = None
    /\ instances = [i \in {} |-> NewInstance(BRIDGE_PORT)]
    /\ created = 0
    /\ start_ret = StartReturn(None, FALSE)
    /\ last = NoExchange
    /\ mcp_pc = "main"
    /\ bridge_ok = "unset"
    /\ mcp_tools = << >>
    /\ totals = << >>
    /\ pending = NoCall
    /\ ret = NoReturn
    /\ conns = [c \in Clients |-> NoConn]
    /\ gh_open = {}
    /\ gh_objects = [d \in Docs |-> << >>]
    /\ gh_active = NoDoc
    /\ gh_ret = NoGhReturn

Next ==
    \/ DiscoverTools("rhino")
    \/ StartBridgeServer
    \/ StopBridgeServer
    \/ StartBridge
    \/ ServePost
    \/ ServeGet
    \/ FinishRequest

Spec == Init /\ [][Next]_vars

\* the MCP server process and the bridge it calls
NextMcp ==
    \/ RegisterTools
    \/ CheckBridgeConnection
    \/ CallTool
    \/ BridgeQuery
    \/ BridgeServes
    \/ FinishRequest
    \/ ReturnResponse
    \/ ReturnFailure
    \/ ReturnToCaller
    \/ StartBridge
    \/ StopBridgeServer

SpecMcp == Init /\ [][NextMcp]_vars

\* __main__ goes on from register_tools to check_bridge_connection, and a
\* request with timeout=10 ends with a response or an exception
SpecMcpFair ==
    /\ SpecMcp
    /\ WF_vars(CheckBridgeConnection)
    /\ WF_vars(ReturnResponse \/ ReturnFailure)

\* the bridge process with the serve_forever thread followed step by step
NextThreads ==
    \/ StartBridgeServer
    \/ StartBridge
    \/ StopBridgeServer
    \/ Connect
    \/ Accept
    \/ Handle
    \/ Respond

SpecThreads == Init /\ [][NextThreads]_vars

\* ================================================================ properties
NamesOf(list) == {list[i].name : i \in DOMAIN list}

\* the names the decorators `dec` of the importable tool modules register
Registered(dec) ==
    UNION {{ModuleBody(m)[i].name :
                i \in {j \in DOMAIN ModuleBody(m) : ModuleBody(m)[j].dec = dec}} :
           m \in ToolModules \ broken}

Completed(p) == discover_outcome[p] \in {"loaded", "reloaded"}

\* C1: after every completed discover_tools() the three tool lists and the
\* handler table hold exactly the registrations of the modules imported or
\* reloaded in that call, each once: nothing of an earlier discovery or
\* import persists, and a repeated discovery gives the same names and counts.
C1_DiscoveryRepopulates ==
    \A p \in Proc : Completed(p) =>
        /\ NamesOf(_rhino_tools[p]) = Registered("rhino_tool")
        /\ Len(_rhino_tools[p]) = Cardinality(Registered("rhino_tool"))
        /\ NamesOf(_gh_tools[p]) = Registered("gh_tool")
        /\ Len(_gh_tools[p]) = Cardinality(Registered("gh_tool"))
        /\ NamesOf(_custom_tools[p]) = Registered("custom_tool")
        /\ Len(_custom_tools[p]) = Cardinality(Registered("custom_tool"))
        /\ DOMAIN _bridge_handlers[p] = Registered("bridge_handler")

\* a discovery that reloaded modules of an earlier one has completed
C1_Witness ==
    /\ discover_outcome["rhino"] = "reloaded"
    /\ Len(_gh_tools["rhino"]) > 1
    /\ _bridge_handlers["rhino"] # EmptyHandlers

\* the body HTTP delimits: Content-Length bytes, none without the header
FramedBody(req) == IF req.content_length = "exact" THEN req.body ELSE << >>

\* JSON text is UTF-8 that parses
ValidJson(bytes) ==
    /\ Utf8Decode(bytes).ok
    /\ JsonLoads(Utf8Decode(bytes).text).ok

\* a POST whose body is valid JSON, or that has no body
JsonPost(req) ==
    /\ req.method = "POST"
    /\ req.content_length # "garbage"
    /\ FramedBody(req) = << >> \/ ValidJson(FramedBody(req))

ParsedBody(req) ==
    IF FramedBody(req) = << >> THEN EmptyDict
    ELSE JsonLoads(FramedBody(req)).value

\* C2: a POST with a valid JSON body to a path of the handler table runs the
\* handler registered under that path, once and no other, with the parsed
\* body ({} without a body), and the reply is 200 with the handler's result.
C2_DispatchToRegisteredHandler ==
    (JsonPost(last.req) /\ last.req.path \in DOMAIN _dynamic_handlers) =>
        /\ Len(last.calls) = 1
        /\ last.calls[1].endpoint = last.req.path
        /\ last.calls[1].func = _dynamic_handlers[last.req.path]
        /\ last.calls[1].data = ParsedBody(last.req)
        /\ ~last.calls[1].raised
        /\ last.resp.status = 200
        /\ last.resp.body = last.calls[1].result

\* a POST with a query string and a JSON body reached its handler
C2_Witness ==
    /\ JsonPost(last.req) /\ last.req.path \in DOMAIN _dynamic_handlers
    /\ last.req.query # "" /\ FramedBody(last.req) # << >>
    /\ last.resp.status = 200 /\ Len(last.calls) = 1

\* C3: whatever exception the handler function of a POST raises, the reply
\* is a JSON object with success false, an error message and an error_type,
\* and the server goes on serving.
C3_HandlerExceptionsBecomeErrors ==
    \A i \in DOMAIN last.calls : last.calls[i].outcome.kind = "raise" =>
        /\ last.resp.status # 0
        /\ last.resp.body.success = "False"
        /\ last.resp.body.error # << >>
        /\ last.resp.body.error_type = last.calls[i].outcome.type
        /\ Serving # {}

C3_Witness ==
    /\ Len(last.calls) = 1
    /\ last.calls[1].outcome.kind = "raise"
    /\ last.resp.body.error_type = "ValueError"

\* C4: a call of a registered handler never raises and gives a dictionary
\* with 'success': success false and the class name when the function
\* raised, success false and InvalidReturnType when it returned no
\* dictionary, success true added when the dictionary had none, and the
\* function's dictionary unchanged otherwise.
C4_WrapperResult ==
    \A i \in DOMAIN last.calls :
        LET o == last.calls[i].outcome
            r == last.calls[i].result
        IN /\ ~last.calls[i].raised
           /\ r.success # Absent
           /\ o.kind = "raise" =>
                (r.success = "False" /\ r.error_type = o.type)
           /\ (o.kind = "return" /\ o.type # "dict") =>
                (r.success = "False" /\ r.error_type = "InvalidReturnType")
           /\ (o.kind = "return" /\ o.type = "dict" /\ o.success = Absent) =>
                r = [FuncDict(o) EXCEPT !.success = "True"]
           /\ (o.kind = "return" /\ o.type = "dict" /\ o.success # Absent) =>
                r = FuncDict(o)

\* each of the four cases has happened
C4_Witness ==
    /\ Len(last.calls) = 1
    /\ last.calls[1].outcome.kind = "return"
    /\ last.calls[1].outcome.type = "dict"
    /\ last.calls[1].outcome.success = Absent
    /\ last.calls[1].result.success = "True"

\* C8: a POST with a valid JSON body to a path outside the handler table
\* runs no handler and is answered 404 EndpointNotFound with the endpoint
\* and the sorted list of all registered paths.
C8_UnknownEndpoint ==
    (JsonPost(last.req) /\ last.req.path \notin DOMAIN _dynamic_handlers) =>
        LET ae == last.resp.body.available_endpoints
        IN /\ last.calls = << >>
           /\ last.resp.status = 404
           /\ last.resp.body.success = "False"
           /\ last.resp.body.error_type = "EndpointNotFound"
           /\ last.resp.body.endpoint = last.req.path
           /\ {ae[i] : i \in DOMAIN ae} = DOMAIN _dynamic_handlers
           /\ \A i, j \in DOMAIN ae : i < j => StrLess(ae[i], ae[j])

C8_Witness ==
    /\ JsonPost(last.req) /\ last.resp.status = 404
    /\ Len(last.resp.body.available_endpoints) > 1
    /\ FramedBody(last.req) # << >>

\* C9, as claimed: a POST whose body is not valid JSON is answered 400
\* JSONDecodeError with success false, and no handler runs.
C9_InvalidJsonAnswered400 ==
    (/\ last.req.method = "POST"
     /\ last.req.content_length = "exact"
     /\ FramedBody(last.req) # << >>
     /\ ~ValidJson(FramedBody(last.req))) =>
        /\ last.resp.status = 400
        /\ last.resp.body.success = "False"
        /\ last.resp.body.error_type = "JSONDecodeError"
        /\ last.calls = << >>

Running == bridge_server # None /\ is_running(instances[bridge_server])

\* C10: at most one HTTP server of the process serves, and while the
\* current server runs no step creates a RhinoBridgeServer, an HTTPServer or
\* a thread: a start returns the existing instance.
C10_AtMostOneServer ==
    /\ [](Cardinality(Serving) <= 1)
    /\ [][Running =>
            /\ created' = created
            /\ \/ bridge_server' = bridge_server /\ instances' = instances
               \/ bridge_server' = None
            /\ start_ret' # start_ret =>
                    start_ret' = StartReturn(bridge_server, TRUE)]_vars

\* a start found the server running and returned it
C10_Witness ==
    /\ start_ret.existing
    /\ start_ret.instance = bridge_server
    /\ Serving = {bridge_server}
    /\ created > 1

\* the last call_bridge_api call returned the error dictionary of `type`
ErrorOfType(type) ==
    /\ ret.result.dict.success = "False"
    /\ ret.result.dict.endpoint = ret.call.endpoint
    /\ ret.result.dict.error_type = type

\* the call failed by an HTTP error status
HttpErrorStatus ==
    ret.wire.exc = Absent /\ raise_for_status(ret.wire.response)

\* C5, as claimed: call_bridge_api returns a dictionary and never raises,
\* and a connection error gives ConnectionError, every timeout Timeout, an
\* HTTP error status HTTPError and any other request exception
\* RequestException, with success false and the endpoint.
C5_ErrorTypeByFailure ==
    ret # NoReturn =>
        /\ ret.result.raised = Absent
        /\ ret.result.json # NoDict \/ ret.result.dict # NoClientDict
        /\ "ConnectionError" \in Mro(ret.wire.exc) => ErrorOfType("ConnectionError")
        /\ "Timeout" \in Mro(ret.wire.exc) => ErrorOfType("Timeout")
        /\ HttpErrorStatus => ErrorOfType("HTTPError")
        /\ (/\ "RequestException" \in Mro(ret.wire.exc)
            /\ "ConnectionError" \notin Mro(ret.wire.exc)
            /\ "Timeout" \notin Mro(ret.wire.exc)) => ErrorOfType("RequestException")

\* C5, amended: call_bridge_api returns a dictionary and never raises; a
\* connection error, a timeout while connecting included, gives
\* ConnectionError, a timeout while waiting for the response Timeout, an
\* HTTP error status HTTPError and any other request exception
\* RequestException, with success false and the endpoint.
C5_ErrorTypeByExceptClause ==
    ret # NoReturn =>
        /\ ret.result.raised = Absent
        /\ ret.result.json # NoDict \/ ret.result.dict # NoClientDict
        /\ "ConnectionError" \in Mro(ret.wire.exc) => ErrorOfType("ConnectionError")
        /\ (/\ "Timeout" \in Mro(ret.wire.exc)
            /\ "ConnectionError" \notin Mro(ret.wire.exc)) => ErrorOfType("Timeout")
        /\ HttpErrorStatus => ErrorOfType("HTTPError")
        /\ (/\ "RequestException" \in Mro(ret.wire.exc)
            /\ "ConnectionError" \notin Mro(ret.wire.exc)
            /\ "Timeout" \notin Mro(ret.wire.exc)) => ErrorOfType("RequestException")

\* a call of a tool ended with a timeout while connecting
C5_Witness ==
    /\ ret.wire.exc = "ConnectTimeout"
    /\ ret.call.caller = "draw_line_rhino"
    /\ ret.result.dict.error_type = "ConnectionError"

\* C6, as claimed: when the bridge answered with a 4xx or 5xx status the
\* returned dictionary has the status code of the response, the error
\* 'HTTP <status code> error from bridge server' and the first 1000
\* characters of the response body.
C6_HttpErrorCarriesResponse ==
    (ret # NoReturn /\ HttpErrorStatus) =>
        LET code == StatusStr(ret.wire.response.status)
        IN /\ ret.result.dict.status_code = code
           /\ ret.result.dict.error = << "HTTP ", code, " error from bridge server" >>
           /\ ret.result.dict.response_body =
                First1000(ResponseText(ret.wire.response, ret.wire.long))

\* the calls the model holds: the one in progress and the last finished
CallsSeen == {c \in {pending, ret.call} : c.caller # Absent}

\* C7: call_bridge_api sends a GET exactly when data is None and otherwise
\* a POST whose body is the payload as JSON, an empty dictionary too; every
\* registered tool passes a dictionary, so a GET comes from
\* get_bridge_status or get_bridge_info only.
C7_GetOnlyWithoutData ==
    \A c \in CallsSeen :
        /\ c.req.method = "GET" <=> c.data = NoneValue
        /\ c.data # NoneValue =>
                c.req = Request("POST", c.endpoint, "", "exact", JsonDumps(c.data))
        /\ c.caller \in {mcp_tools[i].name : i \in DOMAIN mcp_tools} =>
                (c.data.type = "dict" /\ c.req.method = "POST")
        /\ c.req.method = "GET" =>
                c.caller \in {"get_bridge_status", "get_bridge_info"}

\* the bridge answered a tool's POST of an empty dictionary
C7_Witness ==
    /\ pending.caller = "get_active_gh_files"
    /\ pending.data = EmptyDict
    /\ pending.req.method = "POST"
    /\ pending.stage = "answered"
    /\ pending.response.status = 200

\* C11: a stop_bridge_server step leaves get_bridge_server() None, no server
\* of the process accepting requests and bridge_status reporting not
\* running, and changes nothing when no server was set; a start after it
\* creates a new instance, which runs once its port is bound, and the
\* dispatch table it serves is the one served before.
C11_StopThenStartAgain ==
    /\ [][StopBridgeServer =>
            /\ bridge_server' = None
            /\ Serving' = {}
            /\ bridge_status' = "Bridge server is not running"
            /\ bridge_server = None => UNCHANGED vars]_vars
    /\ [][(bridge_server = None /\ (StartBridgeServer \/ StartBridge)) =>
            /\ bridge_server' # None
            /\ bridge_server' \notin DOMAIN instances
            /\ instances'[bridge_server'].server = "open" =>
                    (/\ Serving' = {bridge_server'}
                     /\ bridge_status' = "Bridge server is running")
            /\ _handlers_initialized =>
                    _dynamic_handlers' = _dynamic_handlers]_vars

\* a server that a start had found running was stopped
C11_Witness ==
    /\ start_ret.existing
    /\ bridge_server = None
    /\ Serving = {}
    /\ DOMAIN _dynamic_handlers # {}

\* C12: at no point is more than one connection inside a request handler of
\* the bridge process, its response not yet written; a second request
\* waits in the queue until the handler of the first has returned.
C12_OneRequestAtATime ==
    Cardinality(UNION {InHandler(i) : i \in DOMAIN instances}) <= 1

\* a request waits while the response of another is being written
C12_Witness ==
    \E c, d \in Clients :
        /\ conns[c].stage = "responding"
        /\ conns[d] = Conn("queued", conns[c].inst)
        /\ last.resp.status = 200

\* C13: check_bridge_connection returns True exactly when the status call
\* gave a dictionary with status 'running' and False in every other case,
\* an exception included, and once register_tools has returned mcp.run is
\* reached with either result.
C13_CheckIsOptional ==
    /\ [](mcp_pc = "run" => bridge_ok \in {"True", "False"})
    /\ [][(mcp_pc = "check" /\ mcp_pc' # "check") =>
            /\ mcp_pc' = "run"
            /\ ret'.call.caller = "get_bridge_status"
            /\ bridge_ok' = "True" <=>
                    (/\ ret'.result.raised = Absent
                     /\ ret'.result.json.status = "running")]_vars
    /\ (mcp_pc = "check") ~> (mcp_pc = "run")

\* mcp.run was reached after a check that failed by timeout
C13_Witness ==
    /\ mcp_pc = "run"
    /\ bridge_ok = "False"
    /\ ret.call.caller = "get_bridge_status"
    /\ ret.wire.exc = "ReadTimeout"

\* what the decorators `dec` of the modules `mods` hand to mcp.tool
Decorated(dec, mods) ==
    LET type == CASE dec = "rhino_tool" -> "rhino"
                  [] dec = "gh_tool" -> "grasshopper"
                  [] dec = "custom_tool" -> "custom"
    IN UNION {{to_dict(ToolDefinition(Defaulted(ModuleBody(m)[i], type), type)) :
                i \in {j \in DOMAIN ModuleBody(m) : ModuleBody(m)[j].dec = dec}} :
              m \in mods}

\* register_tools has returned with the decorated functions of `mods`
\* registered once each, custom, Rhino, Grasshopper, and their counts
RegisteredAll(mods) ==
    LET nc == Cardinality(Decorated("custom_tool", mods))
        nr == Cardinality(Decorated("rhino_tool", mods))
        ng == Cardinality(Decorated("gh_tool", mods))
        Part(from, n) == {mcp_tools[i] : i \in (from + 1)..(from + n)}
    IN /\ Len(mcp_tools) = nc + nr + ng
       /\ Part(0, nc) = Decorated("custom_tool", mods)
       /\ Part(nc, nr) = Decorated("rhino_tool", mods)
       /\ Part(nc + nr, ng) = Decorated("gh_tool", mods)
       /\ totals = << nc, nr, ng >>
       /\ totals = << Len(_custom_tools["mcp"]), Len(_rhino_tools["mcp"]),
                      Len(_gh_tools["mcp"]) >>

\* C14, as claimed: after register_tools has returned every decorated
\* function of the tool modules is registered once, under its name and
\* description, custom tools, then Rhino tools, then Grasshopper tools, and
\* the triple returned holds the sizes of the three registries.
C14_AllToolsRegistered ==
    mcp_pc \in {"check", "run"} => RegisteredAll(ToolModules)

\* C14, amended: the same of every decorated function of the tool modules
\* whose import succeeded; a module whose import raises contributes none.
C14_ImportedToolsRegistered ==
    mcp_pc \in {"check", "run"} => RegisteredAll(ToolModules \ broken)

\* register_tools returned where one module failed and two registered
C14_Witness ==
    /\ mcp_pc = "check"
    /\ broken = {"custom_tools"}
    /\ totals = << 0, 1, 9 >>
    /\ Len(mcp_tools) = 10

\* C15, as claimed: when the generate_building_massing tool reached a
\* running bridge and the bridge answered its request with 200, the
\* dictionary the tool returns has success = true.
C15_MassingSucceeds ==
    (/\ ret.call.caller = "generate_building_massing"
     /\ ret.wire.exc = Absent
     /\ ret.wire.response.status = 200) =>
        (/\ ret.result.raised = Absent
         /\ ret.result.json.success = "True")

\* the sliders of Grasshopper documents, through the bridge's handlers
NextSliders ==
    \/ OpenDocument
    \/ ShowDocument
    \/ CloseDocument
    \/ HandleListSliders
    \/ HandleSetSlider
    \/ HandlerReturns

\* an installation where the handlers of gh_tools.py are registered
InitGh == Init /\ broken = {} /\ DYNAMIC_HANDLERS_AVAILABLE

SpecSliders == InitGh /\ [][NextSliders]_vars

\* the eml_ components of Grasshopper documents, through the bridge's handler
NextEml ==
    \/ OpenDocument
    \/ PlaceComponent
    \/ HandleListEmlParameters
    \/ HandlerReturns

SpecEml == InitGh /\ [][NextEml]_vars

\* file_name names the document d
Names(file_name, d) ==
    /\ file_name # << >>
    /\ FilePath(d) # << >>
    /\ lower(basename(FilePath(d))) = lower(file_name)

\* C16, as claimed: a call of handle_set_slider or handle_list_sliders whose
\* file_name names a document that is open and not the active one makes
\* that document the active one and reads or updates its sliders, and no
\* call touches the sliders of a document other than the named one.
C16_NamedFileActivated ==
    [][\A d \in gh_open :
        (/\ gh_ret = NoGhReturn
         /\ gh_ret'.handler \in {"handle_set_slider", "handle_list_sliders"}
         /\ gh_ret'.data.file_name # << >>) =>
            /\ (Names(gh_ret'.data.file_name, d) /\ d # gh_active) =>
                    (gh_active' = d /\ gh_ret'.doc = d)
            /\ ~Names(gh_ret'.data.file_name, d) =>
                    (gh_ret'.doc # d /\ gh_objects'[d] = gh_objects[d])]_vars

\* the handler of /list_eml_parameters has returned its lists
EmlListed ==
    /\ gh_ret.handler = "handle_list_eml_parameters"
    /\ gh_ret.result.success = "True"

\* the positions of the components of the document gone through whose
\* nickname starts with eml_ in any case
EmlPrefixed ==
    {i \in DOMAIN gh_objects[gh_ret.doc] :
        LET n == gh_objects[gh_ret.doc][i].NickName
        IN /\ Len(n) >= 4
           /\ n[1] \in {"e", "E"} /\ n[2] \in {"m", "M"}
           /\ n[3] \in {"l", "L"} /\ n[4] = "_"}

\* those of the eight kinds the handler knows whose properties can be read
EmlKnown ==
    {i \in EmlPrefixed :
        /\ gh_objects[gh_ret.doc][i].readable
        /\ gh_objects[gh_ret.doc][i].type \in
            {"GH_NumberSlider", "GH_Panel", "GH_BooleanToggle", "GH_ValueList",
             "Param_Number", "Param_Integer", "Param_String", "Param_Curve"}}

\* where the returned lists hold the component at position i
EntriesOf(i) ==
    UNION {{<< c, k >> : k \in {k \in DOMAIN gh_ret.result.eml_parameters[c] :
                            gh_ret.result.eml_parameters[c][k].guid = i}} :
           c \in Categories}

\* the returned lists hold the components `found`, each once, with the
\* counts of the summary and the direction of each
ListsExactly(found) ==
    LET lists == gh_ret.result.eml_parameters
        summary == gh_ret.result.summary
    IN /\ \A i \in found : Cardinality(EntriesOf(i)) = 1
       /\ \A i \in DOMAIN gh_objects[gh_ret.doc] \ found : EntriesOf(i) = {}
       /\ \A c \in Categories : summary[c] = Len(lists[c])
       /\ summary["total_count"] = Cardinality(found)
       /\ summary["total_count"] = SumLen(lists, Categories)
       /\ \A c \in Categories : \A k \in DOMAIN lists[c] :
            LET obj == gh_objects[gh_ret.doc][lists[c][k].guid]
            IN /\ lists[c][k].name = obj.NickName
               /\ lists[c][k].direction =
                    (CASE obj.sources /\ obj.recipients -> "passthrough"
                       [] obj.sources /\ ~obj.recipients -> "output"
                       [] ~obj.sources /\ obj.recipients -> "input"
                       [] ~obj.sources /\ ~obj.recipients -> "isolated")

Initialises(req) ==
    \/ req.method = "POST"
    \/ req.method = "GET" /\ req.path = "/info" /\ req.query = ""

\* the dispatch table is filled once, with the registry of that moment, and
\* is empty and tried again by every POST and GET /info until then
DispatchTableOnce ==
    /\ [](~_handlers_initialized => _dynamic_handlers = EmptyHandlers)
    /\ [][_handlers_initialized =>
            /\ _handlers_initialized'
            /\ _dynamic_handlers' = _dynamic_handlers]_vars
    /\ [][(~_handlers_initialized /\ _handlers_initialized') =>
            _dynamic_handlers' = get_bridge_handlers("rhino")']_vars
    /\ [][(/\ ~_handlers_initialized
           /\ DYNAMIC_HANDLERS_AVAILABLE
           /\ ThreadIdle /\ Initialises(last'.req)) =>
            \/ _handlers_initialized'
            \/ /\ discover_outcome'["rhino"] = "raised"
               /\ get_bridge_handlers("rhino")' = EmptyHandlers]_vars
    /\ [](~DYNAMIC_HANDLERS_AVAILABLE =>
            ~_handlers_initialized /\ _dynamic_handlers = EmptyHandlers)

\* C18, as claimed: the dispatch table is initialised at most once and
\* never changes afterwards, every POST and GET /info tries the
\* initialisation again until it has succeeded, and where the registry
\* module could not be imported the table stays empty and every POST is
\* answered 404.
C18_InitialisedOnceElse404 ==
    /\ DispatchTableOnce
    /\ []((~DYNAMIC_HANDLERS_AVAILABLE /\ last.req.method = "POST") =>
            last.resp.status = 404)

\* C18, amended: the same, but where the registry module could not be
\* imported no POST runs a handler, and a POST is answered 404 when its
\* body is valid JSON or empty, 400 or 500 otherwise.
C18_InitialisedOnceNoHandler ==
    /\ DispatchTableOnce
    /\ []((~DYNAMIC_HANDLERS_AVAILABLE /\ last.req.method = "POST") =>
            /\ last.calls = << >>
            /\ IF JsonPost(last.req) THEN last.resp.status = 404
               ELSE last.resp.status \in {400, 500})

\* the table serves a POST after a later discover_tools call raised and
\* left the registry empty
C18_Witness ==
    /\ _handlers_initialized
    /\ discover_outcome["rhino"] = "raised"
    /\ get_bridge_handlers("rhino") = EmptyHandlers
    /\ Len(last.calls) = 1
    /\ last.resp.status = 200

\* a GET whose request target is exactly this path
GetOf(req, path) == req.method = "GET" /\ req.path = path /\ req.query = ""

\* C19: no GET runs a registered handler, and a GET to a handler's path is
\* answered 404 'Endpoint not found'; GET /status is answered 200 with
\* status 'running' and leaves the registry, the initialisation flag and
\* the handler table as they were; GET /info is answered 200 with /status
\* and /info as GET entries, then one POST entry per path of the handler
\* table in ascending order, and dynamic_handlers the size of the table.
C19_HandlersOnlyByPost ==
    /\ [](last.req.method = "GET" => last.calls = << >>)
    /\ []((last.req.method = "GET" /\ last.req.path \in DOMAIN _dynamic_handlers) =>
            /\ last.resp.status = 404
            /\ last.resp.body.error = << "Endpoint not found" >>)
    /\ [][(ThreadIdle /\ GetOf(last'.req, "/status")) =>
            /\ last'.resp.status = 200
            /\ last'.resp.body.status = "running"
            /\ UNCHANGED << regVars, dynVars >>]_vars
    /\ [](GetOf(last.req, "/info") =>
            LET e == last.resp.body.endpoints
                n == Cardinality(DOMAIN _dynamic_handlers)
            IN /\ last.resp.status = 200
               /\ last.resp.body.dynamic_handlers = n
               /\ Len(e) = 2 + n
               /\ e[1] = [path |-> "/status", method |-> "GET"]
               /\ e[2] = [path |-> "/info", method |-> "GET"]
               /\ \A i \in 3..Len(e) : e[i].method = "POST"
               /\ {e[i].path : i \in 3..Len(e)} = DOMAIN _dynamic_handlers
               /\ \A i, j \in 3..Len(e) : i < j => StrLess(e[i].path, e[j].path))

\* a GET to the path of a registered handler was answered 404
C19_Witness ==
    /\ last.req.method = "GET"
    /\ last.req.path \in DOMAIN _dynamic_handlers
    /\ last.req.query = ""
    /\ last.resp.status = 404
    /\ Cardinality(DOMAIN _dynamic_handlers) > 1
====
